---- MODULE Spec2Model ----
(***************************************************************************)
(* Course enrollment and attendance-approval workflow of the backend:      *)
(* the /registerCourse, /generateCode, /validateCode and /action handlers  *)
(* of src/src/course/route.ts, the /registerCourse and /user/updateUser    *)
(* handlers of src/src/users/route.ts, and the two mongoose schemas.       *)
(*                                                                         *)
(* Instants are whole hours since 1970-01-01T00:00Z.  An optional field    *)
(* (a schema path without default) is a sequence: << >> when unset, <<v>>  *)
(* when set.  Static profile fields (names, e-mail, description, ...) that *)
(* no handler branches on are left out of the records.                     *)
(***************************************************************************)
EXTENDS Integers, Sequences, FiniteSets, TLC

\* ------------------------------------------------------------------------
\* Bounds of the model
\* ------------------------------------------------------------------------
UserIds == {"u1", "u2"}

CourseIds == {"c1", "c2"}

\* enrollmentLimit of the larger course.
LimitLarge == 2

\* Number of requests in flight at once in the interleaved specification.
NumProcs == 2

Procs == 1 .. NumProcs

\* ------------------------------------------------------------------------
\* Calendar arithmetic of the JavaScript Date object
\* ------------------------------------------------------------------------

\* Days since 1970-01-01 of the proleptic Gregorian date y-m-d (m in 1..12).
\* d may lie outside the month: Date normalises an overflowing day linearly.
DaysFromCivil(y, m, d) ==
  LET yy  == IF m <= 2 THEN y - 1 ELSE y
      era == yy \div 400
      yoe == yy - era * 400
      mp  == IF m > 2 THEN m - 3 ELSE m + 9
      doy == ((153 * mp + 2) \div 5) + d - 1
      doe == yoe * 365 + (yoe \div 4) - (yoe \div 100) + doy
  IN  era * 146097 + doe - 719468

\* Year of the 400-year era of its day number doe (0 .. 146096).
YearOfEra(doe) ==
  (doe - (doe \div 1460) + (doe \div 36524) - (doe \div 146096)) \div 365

\* Day of the year (counted from 1 March) of day doe of the era.
DayOfYear(doe, yoe) == doe - (365 * yoe + (yoe \div 4) - (yoe \div 100))

\* Month (counted from March = 0) of day doy of the year.
MonthOfYear(doy) == (5 * doy + 2) \div 153

CivilOfMonth(era, yoe, doy, mp) ==
  [ y |-> yoe + era * 400 + (IF mp < 10 THEN 0 ELSE 1),
    m |-> IF mp < 10 THEN mp + 3 ELSE mp - 9,
    d |-> doy - ((153 * mp + 2) \div 5) + 1 ]

CivilOfDay(era, yoe, doy) == CivilOfMonth(era, yoe, doy, MonthOfYear(doy))

CivilOfYear(era, doe, yoe) == CivilOfDay(era, yoe, DayOfYear(doe, yoe))

CivilOfEra(zz, era) ==
  CivilOfYear(era, zz - era * 146097, YearOfEra(zz - era * 146097))

\* The Gregorian date of day number z.
CivilFromDays(z) == CivilOfEra(z + 719468, (z + 719468) \div 146097)

\* The instant y-m-d h:00 UTC.
Utc(y, m, d, h) == DaysFromCivil(y, m, d) * 24 + h

FieldsOf(c, hours) ==
  [year |-> c.y, month |-> c.m - 1, date |-> c.d, hours |-> hours]

\* getUTCFullYear / getUTCMonth (0-based) / getUTCDate of new Date(t).
UtcFields(t) == FieldsOf(CivilFromDays(t \div 24), t % 24)

\* getFullYear / getMonth / getDate / getHours in the server's zone, tz hours
\* east of UTC.
LocalFields(t, tz) == UtcFields(t + tz)

\* The instant whose local fields are f; month (0-based), date and hours may
\* overflow and are normalised as Date does.
FromLocal(f, tz) ==
  DaysFromCivil(f.year + (f.month \div 12), (f.month % 12) + 1, f.date) * 24
    + f.hours - tz

\* d.setFullYear(d.getFullYear() + n)
AddYears(t, tz, n) == FromLocal([LocalFields(t, tz) EXCEPT !.year = @ + n], tz)

\* d.setMonth(d.getMonth() + n)
AddMonths(t, tz, n) == FromLocal([LocalFields(t, tz) EXCEPT !.month = @ + n], tz)

\* d.setDate(d.getDate() + n)
AddDays(t, tz, n) == FromLocal([LocalFields(t, tz) EXCEPT !.date = @ + n], tz)

\* d.setHours(d.getHours() + n)
AddHours(t, tz, n) == FromLocal([LocalFields(t, tz) EXCEPT !.hours = @ + n], tz)

\* ------------------------------------------------------------------------
\* Time & status computation of the approve branch
\* ------------------------------------------------------------------------

\* const oneYearInMs = 365 * 24 * 60 * 60 * 1000, in hours
oneYearInMs == 365 * 24

maxAllowedEndDateThreeYears(statusStartDate, tz) == AddYears(statusStartDate, tz, 3)

maxAllowedEndDateOneYear(statusStartDate, tz) == AddYears(statusStartDate, tz, 1)

\* maxAllowedEndDate: statusStartDate with its year advanced by two.
maxAllowedEndDate(statusStartDate, tz) == AddYears(statusStartDate, tz, 2)

InitialEndDateOneYear(now, tz) == AddYears(now, tz, 1)

\* initialEndDate of a first approval: two years after statusStartDate = now.
InitialEndDate(now, tz) == AddYears(now, tz, 2)

\* potentialEndDate > maxAllowedEndDate ? maxAllowedEndDate : potentialEndDate
EarlierOf(potentialEndDate, maxEnd) ==
  IF potentialEndDate > maxEnd THEN maxEnd ELSE potentialEndDate

ResetEndDateTwoYears(now, maxEnd, tz) == EarlierOf(AddYears(now, tz, 2), maxEnd)

\* The expired branch: one year from now, capped at maxAllowedEndDate.
ResetEndDate(now, maxEnd, tz) == EarlierOf(AddYears(now, tz, 1), maxEnd)

\* Months, then days, of the remaining duration added to currentEndDate.
AddRemaining(currentEndDate, remainingDuration, tz) ==
  AddDays(AddMonths(currentEndDate, tz, remainingDuration.month), tz,
          remainingDuration.date - 1)

ExtendEndDateAlwaysRemaining(currentEndDate, maxEnd, tz) ==
  AddRemaining(currentEndDate, UtcFields(maxEnd - currentEndDate), tz)

\* The "add proportional time" branch for an end date still in the future.
ExtendEndDate(currentEndDate, maxEnd, tz) ==
  IF maxEnd - currentEndDate >= oneYearInMs
    THEN AddYears(currentEndDate, tz, 1)
    ELSE AddRemaining(currentEndDate, UtcFields(maxEnd - currentEndDate), tz)

CapEndDateMissing(currentEndDate, maxEnd) == currentEndDate

\* user.statusEndDate = currentEndDate > maxAllowedEndDate ? max : current
CapEndDate(currentEndDate, maxEnd) ==
  IF currentEndDate > maxEnd THEN maxEnd ELSE currentEndDate

\* The end date the else branch computes from currentEndDate.
MovedEndDate(currentEndDate, maxEnd, now, tz) ==
  CapEndDate(IF currentEndDate <= now
               THEN ResetEndDate(now, maxEnd, tz)
               ELSE ExtendEndDate(currentEndDate, maxEnd, tz),
             maxEnd)

\* statusEndDate after an approve at `now` of a user whose statusStartDate is set.
RenewedEndDate(statusStartDate, statusEndDate, now, tz) ==
  MovedEndDate(IF statusEndDate # << >> THEN statusEndDate[1] ELSE statusStartDate,
               maxAllowedEndDate(statusStartDate, tz), now, tz)

\* <<years, months, days>> of the text "`y` ปี `m` เดือน `d` วัน".
DurationText(diffDate) ==
  <<diffDate.year - 1970, diffDate.month, diffDate.date - 1>>

\* statusDuration / statusExpiration, built from statusEndDate - now.
RemainingText(statusEndDate, now) ==
  IF statusEndDate - now > 0
    THEN DurationText(UtcFields(statusEndDate - now))
    ELSE <<0, 0, 0>>

\* user.save() of the approve branch: the four status fields are assigned.
StampedUser(user, start, end, text) ==
  [user EXCEPT !.statusStartDate  = <<start>>,
               !.statusEndDate    = <<end>>,
               !.statusDuration   = <<text>>,
               !.statusExpiration = <<text>>]

StampedUntil(user, start, end, now) ==
  StampedUser(user, start, end, RemainingText(end, now))

\* The user document after the approve branch has run at `now`.
ApprovedUser(user, now, tz) ==
  IF user.statusStartDate = << >>
    THEN StampedUntil(user, now, InitialEndDate(now, tz), now)
    ELSE StampedUntil(user, user.statusStartDate[1],
           RenewedEndDate(user.statusStartDate[1], user.statusEndDate, now, tz),
           now)

\* ------------------------------------------------------------------------
\* State
\* ------------------------------------------------------------------------

VARIABLES
  clock,     \* the wall clock read by `new Date()`
  serverTz,  \* hours east of UTC of the server's local zone
  users,     \* the users collection: userId -> document
  courses,   \* the courses collection: courseId -> document
  requests,  \* in-flight /registerCourse requests: process -> loaded documents
  last       \* the response sent by the latest step, NoResponse if it sent none

vars == <<clock, serverTz, users, courses, requests, last>>

\* Both sessions start on 2024-02-29 09:00 (courseDate is stored as a UTC
\* instant and compared with now + 7 h).
SessionDate == Utc(2024, 2, 29, 9)

\* The instants at which requests arrive on the day of the session.
SessionTimes ==
  << Utc(2024, 2, 29, 1),    \* adjusted 08:00: one hour before the session
     Utc(2024, 2, 29, 2),    \* adjusted 09:00: the session starts
     Utc(2024, 2, 29, 4),    \* adjusted 11:00: c1's session ends
     Utc(2024, 2, 29, 6) >>  \* adjusted 13:00: after both sessions

\* The instants at which admin decisions arrive over the following years.
StatusTimes ==
  << Utc(2024, 2, 29, 1),
     Utc(2025, 3, 1, 0),
     Utc(2026, 2, 28, 12),
     Utc(2026, 3, 1, 4) >>

Now == clock

\* Requests may name a user or a course that is not in the collection.
NoUser == "u0"

NoCourse == "c0"

ReqUserIds == UserIds \cup {NoUser}

ReqCourseIds == CourseIds \cup {NoCourse}

\* Course.findOne scans the collection in insertion order.
CourseOrder == <<"c1", "c2">>

\* A document as /createCourse inserts it and mongoose hydrates it:
\* currentEnrollment defaults to 0, the two arrays to [].
NewCourse(courseId, enrollmentLimit, hours, applicationPeriod) ==
  [ courseId               |-> courseId,
    enrollmentLimit        |-> enrollmentLimit,
    currentEnrollment      |-> 0,
    courseDate             |-> SessionDate,
    hours                  |-> hours,
    applicationPeriod      |-> applicationPeriod,
    registeredUsers        |-> << >>,
    waitingForApproveList  |-> << >>,
    generatedCode          |-> << >>,
    generatedCodeTimestamp |-> << >> ]

\* The catalog: c1 takes one user, lasts two hours and is open for
\* registration since 1 February; c2 takes LimitLarge users, lasts three hours
\* and opens for registration when c1 closes.
Catalog(courseId) ==
  IF courseId = "c1"
    THEN NewCourse(courseId, 1, 2,
           [startDate |-> Utc(2024, 2, 1, 0), endDate |-> Utc(2024, 2, 29, 2)])
    ELSE NewCourse(courseId, LimitLarge, 3,
           [startDate |-> Utc(2024, 2, 29, 2), endDate |-> Utc(2024, 2, 29, 3)])

\* A document as /register and /createAccount save it.
NewUser(userId) ==
  [ userId           |-> userId,
    trainingInfo     |-> << >>,
    statusStartDate  |-> << >>,
    statusEndDate    |-> << >>,
    statusDuration   |-> << >>,
    statusExpiration |-> << >> ]

NoResponse == [op |-> "none", userId |-> NoUser, courseId |-> NoCourse, code |-> ""]

Idle == [pc |-> "idle"]

\* The collections as the catalog and the sign-up left them, at wall-clock
\* time `start` on a server in one of `zones`.
InitAt(start, zones) ==
  /\ clock = start
  /\ serverTz \in zones
  /\ users = [u \in UserIds |-> NewUser(u)]
  /\ courses = [c \in CourseIds |-> Catalog(c)]
  /\ requests = [p \in Procs |-> Idle]
  /\ last = NoResponse

\* The day of the session begins, on a server running in UTC.
Init == InitAt(SessionTimes[1], {0})

Respond(op, userId, courseId, code) ==
  last' = [op |-> op, userId |-> userId, courseId |-> courseId, code |-> code]

\* Time passes between requests: the clock moves to the next instant of the
\* time line.
Tick(timeLine) ==
  /\ \E i \in 1 .. Len(timeLine) - 1 :
       /\ clock = timeLine[i]
       /\ clock' = timeLine[i + 1]
  /\ last' = NoResponse
  /\ UNCHANGED <<serverTz, users, courses, requests>>

\* ------------------------------------------------------------------------
\* Enrollment: the two /registerCourse handlers
\* ------------------------------------------------------------------------

HasCourse(trainingInfo, courseId) ==
  \E i \in 1 .. Len(trainingInfo) : trainingInfo[i].courseId = courseId

HasUser(list, userId) ==
  \E i \in 1 .. Len(list) : list[i].userId = userId

RegisterCheckNoDuplicateTest(user, course, courseId, now) ==
  IF \/ now < course.applicationPeriod.startDate
     \/ now > course.applicationPeriod.endDate
    THEN "Error-02-0004"
  ELSE IF course.currentEnrollment >= course.enrollmentLimit
    THEN "Error-02-0006"
  ELSE "Success-01-0002"

RegisterCheckNoCapacityTest(user, course, courseId, now) ==
  IF \/ now < course.applicationPeriod.startDate
     \/ now > course.applicationPeriod.endDate
    THEN "Error-02-0004"
  ELSE IF HasCourse(user.trainingInfo, courseId)
    THEN "Error-02-0005"
  ELSE "Success-01-0002"

\* The checks both handlers run on the loaded documents, in order; the code of
\* the response they end in.
RegisterCheck(user, course, courseId, now) ==
  IF \/ now < course.applicationPeriod.startDate
     \/ now > course.applicationPeriod.endDate
    THEN "Error-02-0004"
  ELSE IF HasCourse(user.trainingInfo, courseId)
    THEN "Error-02-0005"
  ELSE IF course.currentEnrollment >= course.enrollmentLimit
    THEN "Error-02-0006"
  ELSE "Success-01-0002"

\* The element user.trainingInfo.push receives; the handler of users/route.ts
\* leaves courseImage out.
TrainingEntry(course, withImage) ==
  [ courseId    |-> course.courseId,
    courseDate  |-> course.courseDate,
    hours       |-> course.hours,
    courseImage |-> withImage ]

\* The element course.registeredUsers.push receives.
RegisteredEntry(user) == [userId |-> user.userId]

\* await user.save() after trainingInfo.push: mongoose sends the pushed
\* elements as a $push, applied to the stored array.
SaveUserPush(stored, entry) ==
  [stored EXCEPT !.trainingInfo = Append(@, entry)]

\* await course.save() in course/route.ts: $set of the assigned
\* currentEnrollment and $push of the pushed registeredUsers element.
SaveCourseRegistered(stored, currentEnrollment, entry) ==
  [stored EXCEPT !.currentEnrollment = currentEnrollment,
                 !.registeredUsers = Append(@, entry)]

\* await course.save() in users/route.ts: only currentEnrollment was modified.
SaveCourseEnrollment(stored, currentEnrollment) ==
  [stored EXCEPT !.currentEnrollment = currentEnrollment]

\* course.post("/registerCourse") run to completion.
RegisterCourse(userId, courseId) ==
  /\ UNCHANGED <<clock, serverTz, requests>>
  /\ IF courseId \notin DOMAIN courses
       THEN /\ Respond("registerCourse", userId, courseId, "Error-02-0002")
            /\ UNCHANGED <<users, courses>>
     ELSE IF userId \notin DOMAIN users
       THEN /\ Respond("registerCourse", userId, courseId, "Error-02-0003")
            /\ UNCHANGED <<users, courses>>
     ELSE LET user   == users[userId]
              course == courses[courseId]
              code   == RegisterCheck(user, course, courseId, Now)
          IN  /\ Respond("registerCourse", userId, courseId, code)
              /\ IF code = "Success-01-0002"
                   THEN /\ users' = [users EXCEPT ![userId] =
                              SaveUserPush(@, TrainingEntry(course, TRUE))]
                        /\ courses' = [courses EXCEPT ![courseId] =
                              SaveCourseRegistered(@, course.currentEnrollment + 1,
                                                   RegisteredEntry(user))]
                   ELSE UNCHANGED <<users, courses>>

\* user.post("/registerCourse") run to completion.
UserRegisterCourse(userId, courseId) ==
  /\ UNCHANGED <<clock, serverTz, requests>>
  /\ IF courseId \notin DOMAIN courses
       THEN /\ Respond("userRegisterCourse", userId, courseId, "Error-02-0002")
            /\ UNCHANGED <<users, courses>>
     ELSE IF userId \notin DOMAIN users
       THEN /\ Respond("userRegisterCourse", userId, courseId, "Error-02-0003")
            /\ UNCHANGED <<users, courses>>
     ELSE LET user   == users[userId]
              course == courses[courseId]
              code   == RegisterCheck(user, course, courseId, Now)
          IN  /\ Respond("userRegisterCourse", userId, courseId, code)
              /\ IF code = "Success-01-0002"
                   THEN /\ users' = [users EXCEPT ![userId] =
                              SaveUserPush(@, TrainingEntry(course, FALSE))]
                        /\ courses' = [courses EXCEPT ![courseId] =
                              SaveCourseEnrollment(@, course.currentEnrollment + 1)]
                   ELSE UNCHANGED <<users, courses>>

\* ------------------------------------------------------------------------
\* Attendance code: /generateCode and /validateCode
\* ------------------------------------------------------------------------

\* currentTime.getTime() + 7 * 60 * 60 * 1000, in hours
GmtPlus7Hours == 7

currentTimeGMTPlus7(now) == now + GmtPlus7Hours

courseStartTime(course) == course.courseDate

\* courseEndTime.setHours(courseStartTime.getHours() + hours)
courseEndTime(course, tz) == AddHours(course.courseDate, tz, course.hours)

\* Math.floor(1000 + Math.random() * 9000).toString(): two of the 9000 values.
CodeChoices == {"1000", "9999"}

CodeInPeriodStartExclusive(course, tz) ==
  /\ course.generatedCode # << >>
  /\ course.generatedCodeTimestamp # << >>
  /\ course.generatedCodeTimestamp[1] > courseStartTime(course)
  /\ course.generatedCodeTimestamp[1] <= courseEndTime(course, tz)

\* "a code has already been generated within the course period"
CodeInPeriod(course, tz) ==
  /\ course.generatedCode # << >>
  /\ course.generatedCodeTimestamp # << >>
  /\ course.generatedCodeTimestamp[1] >= courseStartTime(course)
  /\ course.generatedCodeTimestamp[1] <= courseEndTime(course, tz)

GenerateCheckEndExclusive(course, now, tz) ==
  IF currentTimeGMTPlus7(now) < courseStartTime(course)
    THEN "Error-01-0004"
  ELSE IF currentTimeGMTPlus7(now) >= courseEndTime(course, tz)
    THEN "Error-01-0005"
  ELSE IF CodeInPeriod(course, tz)
    THEN "Error-01-0006"
  ELSE "Success-01-0002"

GenerateCheckNoPeriodTest(course, now, tz) ==
  IF currentTimeGMTPlus7(now) < courseStartTime(course)
    THEN "Error-01-0004"
  ELSE IF currentTimeGMTPlus7(now) > courseEndTime(course, tz)
    THEN "Error-01-0005"
  ELSE "Success-01-0002"

\* The checks of /generateCode on the loaded course, in order.
GenerateCheck(course, now, tz) ==
  IF currentTimeGMTPlus7(now) < courseStartTime(course)
    THEN "Error-01-0004"
  ELSE IF currentTimeGMTPlus7(now) > courseEndTime(course, tz)
    THEN "Error-01-0005"
  ELSE IF CodeInPeriod(course, tz)
    THEN "Error-01-0006"
  ELSE "Success-01-0002"

\* course.post("/generateCode") run to completion; newGeneratedCode is the
\* random draw.
GenerateCode(courseId, newGeneratedCode) ==
  /\ UNCHANGED <<clock, serverTz, users, requests>>
  /\ IF courseId \notin DOMAIN courses
       THEN /\ Respond("generateCode", NoUser, courseId, "Error-01-0003")
            /\ UNCHANGED courses
     ELSE LET code == GenerateCheck(courses[courseId], Now, serverTz)
          IN  /\ Respond("generateCode", NoUser, courseId, code)
              /\ IF code = "Success-01-0002"
                   THEN courses' = [courses EXCEPT ![courseId] =
                          [@ EXCEPT !.generatedCode = <<newGeneratedCode>>,
                                    !.generatedCodeTimestamp =
                                       <<currentTimeGMTPlus7(Now)>>]]
                   ELSE UNCHANGED courses

\* Course.findOne({ generatedCode: enteredCode }): the first match in
\* collection order, << >> when there is none.
FindByCode(enteredCode) ==
  LET hits == { i \in 1 .. Len(CourseOrder) :
                  courses[CourseOrder[i]].generatedCode = <<enteredCode>> }
  IN  IF hits = {} THEN << >>
      ELSE << CourseOrder[CHOOSE i \in hits : \A j \in hits : i <= j] >>

ValidateCheckNoRegisteredTest(course, userId, enteredCode, now, tz) ==
  IF <<enteredCode>> # course.generatedCode
    THEN "Error-02-0003"
  ELSE IF \/ currentTimeGMTPlus7(now) < courseStartTime(course)
          \/ currentTimeGMTPlus7(now) > courseEndTime(course, tz)
    THEN "Error-02-0004"
  ELSE IF HasUser(course.waitingForApproveList, userId)
    THEN "Error-02-0006"
  ELSE "Success-02-0001"

ValidateCheckNoPendingTest(course, userId, enteredCode, now, tz) ==
  IF <<enteredCode>> # course.generatedCode
    THEN "Error-02-0003"
  ELSE IF ~HasUser(course.registeredUsers, userId)
    THEN "Error-02-0007"
  ELSE IF \/ currentTimeGMTPlus7(now) < courseStartTime(course)
          \/ currentTimeGMTPlus7(now) > courseEndTime(course, tz)
    THEN "Error-02-0004"
  ELSE "Success-02-0001"

ValidateCheckNoWindowTest(course, userId, enteredCode, now, tz) ==
  IF <<enteredCode>> # course.generatedCode
    THEN "Error-02-0003"
  ELSE IF ~HasUser(course.registeredUsers, userId)
    THEN "Error-02-0007"
  ELSE IF HasUser(course.waitingForApproveList, userId)
    THEN "Error-02-0006"
  ELSE "Success-02-0001"

\* The checks of /validateCode on the course found, in order.
ValidateCheck(course, userId, enteredCode, now, tz) ==
  IF <<enteredCode>> # course.generatedCode
    THEN "Error-02-0003"
  ELSE IF ~HasUser(course.registeredUsers, userId)
    THEN "Error-02-0007"
  ELSE IF \/ currentTimeGMTPlus7(now) < courseStartTime(course)
          \/ currentTimeGMTPlus7(now) > courseEndTime(course, tz)
    THEN "Error-02-0004"
  ELSE IF HasUser(course.waitingForApproveList, userId)
    THEN "Error-02-0006"
  ELSE "Success-02-0001"

\* The element waitingForApproveList.push receives.
WaitingEntry(userId, now) == [userId |-> userId, timestamp |-> now]

\* course.post("/validateCode") run to completion; userId is req.user.userId.
ValidateCode(userId, enteredCode) ==
  /\ UNCHANGED <<clock, serverTz, users, requests>>
  /\ IF enteredCode = ""
       THEN /\ Respond("validateCode", userId, NoCourse, "Error-02-0001")
            /\ UNCHANGED courses
     ELSE IF FindByCode(enteredCode) = << >>
       THEN /\ Respond("validateCode", userId, NoCourse, "Error-02-0002")
            /\ UNCHANGED courses
     ELSE LET courseId == FindByCode(enteredCode)[1]
              code == ValidateCheck(courses[courseId], userId, enteredCode,
                                    Now, serverTz)
          IN  /\ Respond("validateCode", userId, courseId, code)
              /\ IF code = "Success-02-0001"
                   THEN courses' = [courses EXCEPT
                          ![courseId].waitingForApproveList =
                             Append(@, WaitingEntry(userId, Now))]
                   ELSE UNCHANGED courses

\* ------------------------------------------------------------------------
\* Approval: /action
\* ------------------------------------------------------------------------

PullAll(waitingForApproveList, userId) == << >>

\* { $pull: { waitingForApproveList: { userId } } }
Pull(waitingForApproveList, userId) ==
  SelectSeq(waitingForApproveList, LAMBDA e : e.userId # userId)

ActionCheckCourseOnly(userId, courseId, action) ==
  IF userId = "" \/ courseId = "" \/ action \notin {"approve", "reject"}
    THEN "Error-02-0001"
  ELSE IF courseId \notin DOMAIN courses
    THEN "Error-03-0010"
  ELSE "found"

\* The input test and the two lookups of /action, in order: the code of the
\* error response, "found" when the branch of the action runs.
ActionCheck(userId, courseId, action) ==
  IF userId = "" \/ courseId = "" \/ action \notin {"approve", "reject"}
    THEN "Error-02-0001"
  ELSE IF userId \notin DOMAIN users \/ courseId \notin DOMAIN courses
    THEN "Error-03-0010"
  ELSE "found"

\* course.post("/action") run to completion.
Action(userId, courseId, action) ==
  /\ UNCHANGED <<clock, serverTz, requests>>
  /\ IF ActionCheck(userId, courseId, action) # "found"
       THEN /\ Respond(action, userId, courseId,
                       ActionCheck(userId, courseId, action))
            /\ UNCHANGED <<users, courses>>
     ELSE IF action = "reject"
       THEN /\ courses' = [courses EXCEPT ![courseId].waitingForApproveList =
                              Pull(@, userId)]
            /\ Respond(action, userId, courseId, "Success-01-0001")
            /\ UNCHANGED users
     ELSE /\ users' = [users EXCEPT ![userId] = ApprovedUser(@, Now, serverTz)]
          /\ Respond(action, userId, courseId, "Success-03-0002")
          /\ UNCHANGED courses

\* ------------------------------------------------------------------------
\* Profile update: /user/updateUser
\* ------------------------------------------------------------------------

\* Dates a request body may carry for statusStartDate and statusEndDate.
StatusDates ==
  { Utc(2024, 1, 31, 0), Utc(2024, 6, 1, 0), Utc(2025, 8, 15, 0),
    Utc(2026, 3, 1, 0), Utc(2027, 1, 1, 0), Utc(2027, 3, 2, 0) }

Absent == 0 - 1

\* The updateFields of a request body: every field but userId is passed to
\* $set.  The bodies modelled set one or both status dates.
UpdateFieldSets ==
  { f \in [ {"statusStartDate", "statusEndDate"} -> StatusDates \cup {Absent} ] :
      \E k \in DOMAIN f : f[k] # Absent }

\* User.updateOne({ userId }, { $set: updateFields }) on the stored document;
\* Absent marks a field the body does not carry.
SetFields(stored, updateFields) ==
  [stored EXCEPT
     !.statusStartDate = IF updateFields["statusStartDate"] # Absent
                           THEN <<updateFields["statusStartDate"]>> ELSE @,
     !.statusEndDate   = IF updateFields["statusEndDate"] # Absent
                           THEN <<updateFields["statusEndDate"]>> ELSE @]

\* user.post("/user/updateUser") without an avatar file, run to completion.
UpdateUser(userId, updateFields) ==
  /\ UNCHANGED <<clock, serverTz, courses, requests>>
  /\ IF userId \notin DOMAIN users
       THEN /\ Respond("updateUser", userId, NoCourse, "Error-02-0003")
            /\ UNCHANGED users
     ELSE IF SetFields(users[userId], updateFields) = users[userId]
       THEN /\ Respond("updateUser", userId, NoCourse, "Error-02-0006")
            /\ UNCHANGED users
     ELSE /\ users' = [users EXCEPT ![userId] = SetFields(@, updateFields)]
          /\ Respond("updateUser", userId, NoCourse, "Success-01-0003")

\* ------------------------------------------------------------------------
\* Specifications
\* ------------------------------------------------------------------------

ActionNames == {"approve", "reject", "cancel"}

EnteredCodes == CodeChoices \cup {""}

\* Every workflow handler run to completion, one request at a time, within
\* the hour in which the sessions start: both courses take registrations,
\* codes can be generated and entered.
Next ==
  \/ \E u \in UserIds, c \in CourseIds : RegisterCourse(u, c)
  \/ \E c \in CourseIds, code \in CodeChoices : GenerateCode(c, code)
  \/ \E u \in UserIds, code \in CodeChoices : ValidateCode(u, code)
  \/ \E u \in UserIds, c \in CourseIds, a \in {"approve", "reject"} :
       Action(u, c, a)

Spec == InitAt(SessionTimes[2], {0}) /\ [][Next]_vars

\* Sequences of register calls through either handler.
NextRegister ==
  \/ Tick(SessionTimes)
  \/ \E u \in ReqUserIds, c \in ReqCourseIds : RegisterCourse(u, c)
  \/ \E u \in ReqUserIds, c \in ReqCourseIds : UserRegisterCourse(u, c)

SpecRegister == Init /\ [][NextRegister]_vars

\* Registration, code generation and code entry on the day of the session.
NextCode ==
  \/ Tick(SessionTimes)
  \/ \E u \in UserIds, c \in CourseIds : RegisterCourse(u, c)
  \/ \E c \in ReqCourseIds, code \in CodeChoices : GenerateCode(c, code)
  \/ \E u \in UserIds, code \in EnteredCodes : ValidateCode(u, code)

SpecCode == Init /\ [][NextCode]_vars

\* The user the status specification follows: approvals and profile updates
\* of one user never read another user's document.
FirstUser == "u1"

\* Sequences of admin decisions on one user whose status dates were written
\* before by approvals or by profile updates, over the years, on a server in
\* UTC or seven hours east of it.
NextStatus ==
  \/ Tick(StatusTimes)
  \/ \E a \in ActionNames : Action(FirstUser, "c1", a)
  \/ \E f \in UpdateFieldSets : UpdateUser(FirstUser, f)

SpecStatus == InitAt(StatusTimes[1], {0, 7}) /\ [][NextStatus]_vars

\* ------------------------------------------------------------------------
\* Interleaved /registerCourse requests of course/route.ts: every await is a
\* point at which another request may run
\* ------------------------------------------------------------------------

\* await Course.findOne({ courseId }): the request keeps the document loaded.
RegisterFindCourse(p, userId, courseId) ==
  /\ requests[p].pc = "idle"
  /\ UNCHANGED <<clock, serverTz, users, courses>>
  /\ IF courseId \notin DOMAIN courses
       THEN /\ Respond("registerCourse", userId, courseId, "Error-02-0002")
            /\ UNCHANGED requests
       ELSE /\ requests' = [requests EXCEPT ![p] =
                  [ pc |-> "findUser", userId |-> userId, courseId |-> courseId,
                    course |-> courses[courseId] ]]
            /\ last' = NoResponse

\* await User.findOne({ userId }), then the checks and the pushes on the two
\* loaded documents, up to the call of user.save().
RegisterFindUser(p) ==
  /\ requests[p].pc = "findUser"
  /\ UNCHANGED <<clock, serverTz, users, courses>>
  /\ LET r == requests[p]
     IN  IF r.userId \notin DOMAIN users
           THEN /\ Respond("registerCourse", r.userId, r.courseId, "Error-02-0003")
                /\ requests' = [requests EXCEPT ![p] = Idle]
         ELSE LET code == RegisterCheck(users[r.userId], r.course, r.courseId, Now)
              IN  IF code # "Success-01-0002"
                    THEN /\ Respond("registerCourse", r.userId, r.courseId, code)
                         /\ requests' = [requests EXCEPT ![p] = Idle]
                    ELSE /\ requests' = [requests EXCEPT ![p] =
                               [ pc |-> "saveUser", userId |-> r.userId,
                                 courseId |-> r.courseId, course |-> r.course,
                                 user |-> users[r.userId] ]]
                         /\ last' = NoResponse

\* await user.save() completes.
RegisterSaveUser(p) ==
  /\ requests[p].pc = "saveUser"
  /\ UNCHANGED <<clock, serverTz, courses>>
  /\ users' = [users EXCEPT ![requests[p].userId] =
                 SaveUserPush(@, TrainingEntry(requests[p].course, TRUE))]
  /\ requests' = [requests EXCEPT ![p].pc = "saveCourse"]
  /\ last' = NoResponse

\* await course.save() completes and the response is sent.
RegisterSaveCourse(p) ==
  /\ requests[p].pc = "saveCourse"
  /\ UNCHANGED <<clock, serverTz, users>>
  /\ courses' = [courses EXCEPT ![requests[p].courseId] =
                   SaveCourseRegistered(@, requests[p].course.currentEnrollment + 1,
                                        RegisteredEntry(requests[p].user))]
  /\ Respond("registerCourse", requests[p].userId, requests[p].courseId,
             "Success-01-0002")
  /\ requests' = [requests EXCEPT ![p] = Idle]

NextConcurrent ==
  \/ \E p \in Procs, u \in UserIds, c \in CourseIds : RegisterFindCourse(p, u, c)
  \/ \E p \in Procs : RegisterFindUser(p)
  \/ \E p \in Procs : RegisterSaveUser(p)
  \/ \E p \in Procs : RegisterSaveCourse(p)

\* Up to NumProcs register requests in flight, within the hour in which both
\* courses take registrations.
SpecConcurrent == InitAt(SessionTimes[2], {0}) /\ [][NextConcurrent]_vars

\* ------------------------------------------------------------------------
\* A storage write of /registerCourse is rejected
\* ------------------------------------------------------------------------

\* await user.save() or await course.save() throws: the catch block answers
\* 500 and nothing written before is undone.
RegisterSaveFails(p) ==
  /\ requests[p].pc \in {"saveUser", "saveCourse"}
  /\ UNCHANGED <<clock, serverTz, users, courses>>
  /\ Respond("registerCourse", requests[p].userId, requests[p].courseId,
             "Error-03-0001")
  /\ requests' = [requests EXCEPT ![p] = Idle]

NextFailure ==
  \/ \E u \in UserIds, c \in CourseIds : RegisterFindCourse(1, u, c)
  \/ RegisterFindUser(1)
  \/ RegisterSaveUser(1)
  \/ RegisterSaveCourse(1)
  \/ RegisterSaveFails(1)

\* One register request at a time, either of whose two writes may fail.
SpecFailure == InitAt(SessionTimes[2], {0}) /\ [][NextFailure]_vars

\* ------------------------------------------------------------------------
\* Attendance and decisions on the day of the session
\* ------------------------------------------------------------------------

\* The course whose session the specification follows.
SessionCourse == "c2"

\* Registration for one course, generation and entry of its code and admin
\* decisions on it, one request at a time, from the start of the session
\* until after it.
NextPending ==
  \/ Tick(SessionTimes)
  \/ \E u \in UserIds : RegisterCourse(u, SessionCourse)
  \/ \E code \in CodeChoices : GenerateCode(SessionCourse, code)
  \/ \E u \in UserIds, code \in EnteredCodes : ValidateCode(u, code)
  \/ \E u \in UserIds, a \in {"approve", "reject"} : Action(u, SessionCourse, a)

SpecPending == InitAt(SessionTimes[2], {0}) /\ [][NextPending]_vars

\* ------------------------------------------------------------------------
\* Repeated admin decisions over the years
\* ------------------------------------------------------------------------

\* The instants at which decisions arrive: the day of the first approval,
\* dates within the year after it, and dates around the end of the first and
\* of the second year.
ApproveTimes ==
  << Utc(2024, 2, 29, 1),
     Utc(2024, 6, 1, 0),
     Utc(2025, 2, 28, 20),
     Utc(2025, 3, 1, 1),
     Utc(2026, 2, 28, 20),
     Utc(2026, 3, 1, 4) >>

\* Decisions on the users of one course whose status fields are written by
\* approvals only, on a server in UTC or seven hours east of it.
NextApprove ==
  \/ Tick(ApproveTimes)
  \/ \E u \in UserIds, a \in ActionNames : Action(u, "c1", a)

SpecApprove == InitAt(ApproveTimes[1], {0, 7}) /\ [][NextApprove]_vars

\* ------------------------------------------------------------------------
\* Decisions with arbitrary request bodies
\* ------------------------------------------------------------------------

\* userId and courseId of a /action body: known, unknown or empty.
BodyUserIds == ReqUserIds \cup {""}

BodyCourseIds == {SessionCourse, NoCourse, ""}

\* Registration for one course, generation and entry of its code within the
\* hour in which the session starts, and decisions whose body may name an
\* unknown user, an unknown course or an unknown action.
NextDecide ==
  \/ \E u \in UserIds : RegisterCourse(u, SessionCourse)
  \/ \E code \in CodeChoices : GenerateCode(SessionCourse, code)
  \/ \E u \in UserIds, code \in CodeChoices : ValidateCode(u, code)
  \/ \E u \in BodyUserIds, c \in BodyCourseIds, a \in ActionNames :
       Action(u, c, a)

SpecDecide == InitAt(SessionTimes[2], {0}) /\ [][NextDecide]_vars

\* ------------------------------------------------------------------------
\* Interleaved /generateCode and /validateCode requests: the await of the
\* lookup and the await of course.save() are the points at which another
\* request may run
\* ------------------------------------------------------------------------

\* await Course.findOne({ courseId }) resolves; the checks run on the loaded
\* document and the new code and timestamp are assigned to it.
GenerateLoad(p, courseId, newGeneratedCode) ==
  /\ requests[p].pc = "idle"
  /\ UNCHANGED <<clock, serverTz, users, courses>>
  /\ IF courseId \notin DOMAIN courses
       THEN /\ Respond("generateCode", NoUser, courseId, "Error-01-0003")
            /\ UNCHANGED requests
     ELSE LET code == GenerateCheck(courses[courseId], Now, serverTz)
          IN  IF code # "Success-01-0002"
                THEN /\ Respond("generateCode", NoUser, courseId, code)
                     /\ UNCHANGED requests
                ELSE /\ requests' = [requests EXCEPT ![p] =
                           [ pc |-> "saveCode", courseId |-> courseId,
                             generatedCode |-> newGeneratedCode,
                             generatedCodeTimestamp |-> currentTimeGMTPlus7(Now) ]]
                     /\ last' = NoResponse

\* await course.save() of /generateCode completes: $set of the two assigned
\* paths, and the response is sent.
GenerateSave(p) ==
  /\ requests[p].pc = "saveCode"
  /\ UNCHANGED <<clock, serverTz, users>>
  /\ courses' = [courses EXCEPT ![requests[p].courseId] =
         [@ EXCEPT !.generatedCode = <<requests[p].generatedCode>>,
                   !.generatedCodeTimestamp =
                      <<requests[p].generatedCodeTimestamp>>]]
  /\ Respond("generateCode", NoUser, requests[p].courseId, "Success-01-0002")
  /\ requests' = [requests EXCEPT ![p] = Idle]

\* await Course.findOne({ generatedCode: enteredCode }) resolves; the checks
\* run on the loaded document and the waiting entry is pushed onto it.
ValidateLoad(p, userId, enteredCode) ==
  /\ requests[p].pc = "idle"
  /\ UNCHANGED <<clock, serverTz, users, courses>>
  /\ IF enteredCode = ""
       THEN /\ Respond("validateCode", userId, NoCourse, "Error-02-0001")
            /\ UNCHANGED requests
     ELSE IF FindByCode(enteredCode) = << >>
       THEN /\ Respond("validateCode", userId, NoCourse, "Error-02-0002")
            /\ UNCHANGED requests
     ELSE LET courseId == FindByCode(enteredCode)[1]
              code == ValidateCheck(courses[courseId], userId, enteredCode,
                                    Now, serverTz)
          IN  IF code # "Success-02-0001"
                THEN /\ Respond("validateCode", userId, courseId, code)
                     /\ UNCHANGED requests
                ELSE /\ requests' = [requests EXCEPT ![p] =
                           [ pc |-> "saveEntry", courseId |-> courseId,
                             entry |-> WaitingEntry(userId, Now) ]]
                     /\ last' = NoResponse

\* await course.save() of /validateCode completes: $push of the entry onto
\* the stored waitingForApproveList, and the response is sent.
ValidateSave(p) ==
  /\ requests[p].pc = "saveEntry"
  /\ UNCHANGED <<clock, serverTz, users>>
  /\ courses' = [courses EXCEPT ![requests[p].courseId].waitingForApproveList =
                   Append(@, requests[p].entry)]
  /\ Respond("validateCode", requests[p].entry.userId, requests[p].courseId,
             "Success-02-0001")
  /\ requests' = [requests EXCEPT ![p] = Idle]

\* Up to NumProcs code requests in flight for a course that users register
\* for, within the hour in which its session starts.
NextConcurrentCode ==
  \/ \E u \in UserIds : RegisterCourse(u, SessionCourse)
  \/ \E p \in Procs, code \in CodeChoices : GenerateLoad(p, SessionCourse, code)
  \/ \E p \in Procs : GenerateSave(p)
  \/ \E p \in Procs, u \in UserIds, code \in CodeChoices : ValidateLoad(p, u, code)
  \/ \E p \in Procs : ValidateSave(p)

SpecConcurrentCode == InitAt(SessionTimes[2], {0}) /\ [][NextConcurrentCode]_vars

\* ------------------------------------------------------------------------
\* Properties
\* ------------------------------------------------------------------------

Approved == last.op = "approve" /\ last.code = "Success-03-0002"

Rejected == last.op = "reject" /\ last.code = "Success-01-0001"

Generated == last.op = "generateCode" /\ last.courseId \in CourseIds

UserIdsOf(list) == { list[i].userId : i \in 1 .. Len(list) }

\* C1 (as claimed): after any sequence of register calls, a course's
\* currentEnrollment is at most its enrollmentLimit and equals the number of
\* distinct users in its registeredUsers.
C1_CapacityLedger ==
  \A c \in CourseIds :
    /\ courses[c].currentEnrollment <= courses[c].enrollmentLimit
    /\ courses[c].currentEnrollment = Cardinality(UserIdsOf(courses[c].registeredUsers))

\* C2 (as claimed): under every interleaving of register requests, a course's
\* registeredUsers never has more entries than enrollmentLimit, and
\* currentEnrollment equals the number of entries.
C2_ConcurrentCapacity ==
  \A c \in CourseIds :
    /\ Len(courses[c].registeredUsers) <= courses[c].enrollmentLimit
    /\ courses[c].currentEnrollment = Len(courses[c].registeredUsers)

\* C3: every successful approve leaves the user's statusEndDate at or before
\* statusStartDate advanced by two calendar years, whatever the dates were
\* before and whenever the approve arrives.
C3_StatusCeiling ==
  [][ Approved' =>
        LET user == users'[last'.userId]
        IN  user.statusEndDate[1]
              <= AddYears(user.statusStartDate[1], serverTz, 2) ]_vars

\* C3 witness: an approve has renewed a status that began earlier, and the
\* end date sits on the ceiling.
C3_Witness ==
  /\ Approved
  /\ users[last.userId].statusStartDate # <<clock>>
  /\ users[last.userId].statusEndDate
       = <<AddYears(users[last.userId].statusStartDate[1], serverTz, 2)>>

\* C4: in every state reached by register and approve operations, a user's
\* trainingInfo holds at most one entry per courseId.
C4_TrainingUnique ==
  \A u \in UserIds :
    \A i, j \in 1 .. Len(users[u].trainingInfo) :
      users[u].trainingInfo[i].courseId = users[u].trainingInfo[j].courseId
        => i = j

\* C4 witness: a registered (user, course) pair has been approved.
C4_Witness ==
  /\ Approved
  /\ HasCourse(users[last.userId].trainingInfo, last.courseId)
  /\ Len(users[last.userId].trainingInfo) = 2

InWindow(course, now) ==
  /\ course.courseDate <= now + 7
  /\ now + 7 <= course.courseDate + course.hours

HoldsCodeOfPeriod(course) ==
  /\ course.generatedCode # << >>
  /\ course.generatedCodeTimestamp # << >>
  /\ course.courseDate <= course.generatedCodeTimestamp[1]
  /\ course.generatedCodeTimestamp[1] <= course.courseDate + course.hours

\* C5 (as claimed): generateCode on an existing course succeeds exactly when
\* courseStart <= now + 7 h <= courseStart + hours, fails with OutOfWindow
\* before and with WindowExpired after.
C5_SucceedsIffInWindow ==
  [][ Generated' =>
        LET course == courses[last'.courseId]
        IN  /\ last'.code = "Success-01-0002" <=> InWindow(course, clock)
            /\ clock + 7 < course.courseDate => last'.code = "Error-01-0004"
            /\ clock + 7 > course.courseDate + course.hours
                 => last'.code = "Error-01-0005" ]_vars

\* C5 (amended): generateCode on an existing course succeeds exactly when
\* now + 7 h lies in the window and the course holds no code stamped inside
\* the window; it fails with OutOfWindow before the window and with
\* WindowExpired after it.
C5_SucceedsIffInWindowAndNoCode ==
  [][ Generated' =>
        LET course == courses[last'.courseId]
        IN  /\ last'.code = "Success-01-0002"
                 <=> InWindow(course, clock) /\ ~HoldsCodeOfPeriod(course)
            /\ clock + 7 < course.courseDate => last'.code = "Error-01-0004"
            /\ clock + 7 > course.courseDate + course.hours
                 => last'.code = "Error-01-0005" ]_vars

\* C5 witness: a code has been generated at the last instant of the window.
C5_Witness ==
  /\ Generated
  /\ last.code = "Success-01-0002"
  /\ clock + 7 = courses[last.courseId].courseDate + courses[last.courseId].hours
  /\ courses[last.courseId].generatedCodeTimestamp = <<clock + 7>>

\* C6 (as claimed): a generateCode call on a course that holds a code stamped
\* inside [courseStart, courseEnd] fails with CodeAlreadyActive and leaves
\* the code and its timestamp unchanged.
C6_SecondCallCodeAlreadyActive ==
  [][ Generated' /\ HoldsCodeOfPeriod(courses[last'.courseId]) =>
        /\ last'.code = "Error-01-0006"
        /\ courses'[last'.courseId].generatedCode
             = courses[last'.courseId].generatedCode
        /\ courses'[last'.courseId].generatedCodeTimestamp
             = courses[last'.courseId].generatedCodeTimestamp ]_vars

\* C6 (amended): such a call fails and leaves the code and its timestamp
\* unchanged; it fails with CodeAlreadyActive when now + 7 h is inside the
\* window and with WindowExpired when now + 7 h is past courseEnd.
C6_SecondCallFails ==
  [][ Generated' /\ HoldsCodeOfPeriod(courses[last'.courseId]) =>
        LET course == courses[last'.courseId]
        IN  /\ InWindow(course, clock) => last'.code = "Error-01-0006"
            /\ clock + 7 > course.courseDate + course.hours
                 => last'.code = "Error-01-0005"
            /\ last'.code # "Success-01-0002"
            /\ courses'[last'.courseId].generatedCode = course.generatedCode
            /\ courses'[last'.courseId].generatedCodeTimestamp
                 = course.generatedCodeTimestamp ]_vars

\* C6 witness: a second call inside the window was refused with
\* CodeAlreadyActive.
C6_Witness ==
  /\ Generated
  /\ last.code = "Error-01-0006"
  /\ InWindow(courses[last.courseId], clock)

C8_DecisionConsumesEntry ==
  Approved \/ Rejected =>
    ~HasUser(courses[last.courseId].waitingForApproveList, last.userId)

\* C9 (as claimed): after a successful approve of (user, course), the user's
\* trainingInfo has a record of that course.
C9_ApproveRecordsCourse ==
  Approved => HasCourse(users[last.userId].trainingInfo, last.courseId)

\* C10: a successful reject of (user, course) removes from the course's
\* waitingForApproveList exactly the entries of that user, keeping the others
\* in order, and changes no other course field, no other course and no user.
C10_RejectFrame ==
  [][ Rejected' =>
        /\ users' = users
        /\ courses' = [courses EXCEPT ![last'.courseId].waitingForApproveList =
               SelectSeq(@, LAMBDA e : e.userId # last'.userId)] ]_vars

\* C10 witness: a reject took one user off a waiting list that still holds
\* the other user's entry.
C10_Witness ==
  /\ Rejected
  /\ HasUser(courses[last.courseId].registeredUsers, last.userId)
  /\ Len(courses[last.courseId].waitingForApproveList) = 1
  /\ ~HasUser(courses[last.courseId].waitingForApproveList, last.userId)

\* C11 (as claimed): whenever no register request is in flight, also after a
\* request whose write failed, a course is in a user's trainingInfo exactly
\* when the user is in the course's registeredUsers, and currentEnrollment
\* counts those entries.
C11_AllOrNone ==
  (\A p \in Procs : requests[p].pc = "idle") =>
    \A c \in CourseIds :
      /\ courses[c].currentEnrollment = Len(courses[c].registeredUsers)
      /\ \A u \in UserIds :
           HasCourse(users[u].trainingInfo, c)
             <=> HasUser(courses[c].registeredUsers, u)

RegisterAnswered ==
  /\ last.op \in {"registerCourse", "userRegisterCourse"}
  /\ last.userId \in UserIds
  /\ last.courseId \in CourseIds

SameInstantElsewhere(trainingInfo, course) ==
  \E i \in 1 .. Len(trainingInfo) :
    /\ trainingInfo[i].courseId # course.courseId
    /\ trainingInfo[i].courseDate = course.courseDate

\* C12 (as claimed): a register call by a user whose trainingInfo holds an
\* entry of another course with the identical courseDate instant is refused
\* and changes neither the user nor the course.
C12_ScheduleConflict ==
  [][ /\ RegisterAnswered'
      /\ SameInstantElsewhere(users[last'.userId].trainingInfo,
                              courses[last'.courseId])
      => /\ last'.code # "Success-01-0002"
         /\ users' = users
         /\ courses' = courses ]_vars

CourseIsFull(course) == course.currentEnrollment >= course.enrollmentLimit

PeriodOpen(course, now) ==
  /\ course.applicationPeriod.startDate <= now
  /\ now <= course.applicationPeriod.endDate

\* C13 (as claimed): a register call on a course whose currentEnrollment has
\* reached enrollmentLimit fails with CourseFull and changes neither the
\* users nor the courses.
C13_FullCourseRefusedAsFull ==
  [][ RegisterAnswered' /\ CourseIsFull(courses[last'.courseId]) =>
        /\ last'.code = "Error-02-0006"
        /\ users' = users
        /\ courses' = courses ]_vars

\* C13 (amended): such a call fails and changes nothing; the failure is
\* CourseFull when the application period is open and the user is not yet
\* registered for the course, RegistrationClosed or AlreadyRegistered
\* otherwise.  A successful register raises currentEnrollment by one.
C13_FullCourseRefused ==
  [][ RegisterAnswered' =>
        LET course == courses[last'.courseId]
            user   == users[last'.userId]
        IN  /\ CourseIsFull(course) =>
                 /\ last'.code \in {"Error-02-0004", "Error-02-0005", "Error-02-0006"}
                 /\ PeriodOpen(course, clock)
                      /\ ~HasCourse(user.trainingInfo, course.courseId)
                      => last'.code = "Error-02-0006"
                 /\ users' = users
                 /\ courses' = courses
            /\ last'.code = "Success-01-0002" =>
                 courses'[last'.courseId].currentEnrollment
                   = course.currentEnrollment + 1 ]_vars

\* C13 witness: the course of limit 1 holds the first user, and the second
\* user's register has just been refused as CourseFull.
C13_Witness ==
  /\ last.op = "registerCourse"
  /\ last.code = "Error-02-0006"
  /\ last.courseId \in CourseIds
  /\ courses[last.courseId].enrollmentLimit = 1
  /\ courses[last.courseId].currentEnrollment = 1
  /\ UserIdsOf(courses[last.courseId].registeredUsers) = UserIds \ {last.userId}

\* The last step answered a validateCode call whose lookup found a course.
Validated ==
  /\ last.op = "validateCode"
  /\ last.userId \in UserIds
  /\ last.courseId \in CourseIds

\* C14: a validateCode call whose code is the generatedCode of the course
\* the lookup returns, by a user who is not in that course's
\* registeredUsers, fails with NotRegistered and changes no course.
C14_NotRegisteredRefused ==
  [][ /\ Validated'
      /\ ~HasUser(courses[last'.courseId].registeredUsers, last'.userId)
      => /\ last'.code = "Error-02-0007"
         /\ courses' = courses ]_vars

\* C14 witness: a user entered the code of a course that another user is
\* registered for, and was refused as NotRegistered.
C14_Witness ==
  /\ Validated
  /\ last.code = "Error-02-0007"
  /\ courses[last.courseId].generatedCode # << >>
  /\ courses[last.courseId].registeredUsers # << >>
  /\ ~HasUser(courses[last.courseId].registeredUsers, last.userId)

\* C15 (as claimed): a validateCode call by a user who already has an entry
\* in the waiting list of the course found fails with AlreadyPending and
\* appends nothing, and no waiting list ever holds two entries of a userId.
C15_PendingOnceAsAlreadyPending ==
  [][ /\ \A c \in CourseIds :
           Cardinality(UserIdsOf(courses'[c].waitingForApproveList))
             = Len(courses'[c].waitingForApproveList)
      /\ Validated'
           /\ HasUser(courses[last'.courseId].waitingForApproveList, last'.userId)
           => /\ last'.code = "Error-02-0006"
              /\ courses' = courses ]_vars

\* C15 (amended): no waiting list holds two entries of a userId; such a
\* call fails and appends nothing, with AlreadyPending while now + 7 h is
\* inside the session window and with WindowExpired outside it.
C15_PendingOnce ==
  [][ /\ \A c \in CourseIds :
           Cardinality(UserIdsOf(courses'[c].waitingForApproveList))
             = Len(courses'[c].waitingForApproveList)
      /\ Validated'
           /\ HasUser(courses[last'.courseId].waitingForApproveList, last'.userId)
           => /\ last'.code = IF InWindow(courses[last'.courseId], clock)
                                THEN "Error-02-0006" ELSE "Error-02-0004"
              /\ courses' = courses ]_vars

\* C15 witness: a user whose entry sits behind another user's entry has
\* entered the code again and was refused as AlreadyPending.
C15_Witness ==
  /\ Validated
  /\ last.code = "Error-02-0006"
  /\ Len(courses[last.courseId].waitingForApproveList) = 2
  /\ courses[last.courseId].waitingForApproveList[2].userId = last.userId

\* The last step was a successful approve of a user approved before, less
\* than one year after the first approval.
ApprovedAgainWithinYear ==
  /\ Approved'
  /\ users[last'.userId].statusStartDate # << >>
  /\ users[last'.userId].statusStartDate[1] < clock
  /\ clock < AddYears(users[last'.userId].statusStartDate[1], serverTz, 1)

C17_ExtendsOneYear ==
  [][ /\ Approved'
      /\ users[last'.userId].statusStartDate # << >>
      /\ users[last'.userId].statusEndDate # << >>
      /\ users[last'.userId].statusEndDate[1] > clock
      /\ AddYears(users[last'.userId].statusEndDate[1], serverTz, 1)
           <= AddYears(users[last'.userId].statusStartDate[1], serverTz, 2)
      => users'[last'.userId].statusEndDate
           = <<AddYears(users[last'.userId].statusEndDate[1], serverTz, 1)>> ]_vars

\* C17 witness: a status running from 31 January 2024 to 1 June 2024 has been
\* extended on 29 February 2024 to 1 June 2025, below the ceiling.
C17_Witness ==
  /\ Approved
  /\ clock = StatusTimes[1]
  /\ users[last.userId].statusStartDate = <<Utc(2024, 1, 31, 0)>>
  /\ users[last.userId].statusEndDate = <<Utc(2025, 6, 1, 0)>>

\* The certification fields of a user document.
StatusOf(user) ==
  <<user.statusStartDate, user.statusEndDate, user.statusDuration,
    user.statusExpiration>>

\* C18 (as claimed): every successful approve that changes the user's status
\* fields happens while the user has an entry in the waiting list of the
\* course named.
C18_ApprovedOnlyFromPending ==
  [][ /\ Approved'
      /\ StatusOf(users'[last'.userId]) # StatusOf(users[last'.userId])
      => HasUser(courses[last'.courseId].waitingForApproveList, last'.userId) ]_vars

\* C19 (as claimed): a user's certification fields change only in a
\* successful approve of that user; every other operation, updateUser
\* included, leaves them unchanged.
C19_StatusOnlyByApprove ==
  [][ \A u \in UserIds :
        StatusOf(users'[u]) # StatusOf(users[u])
          => Approved' /\ last'.userId = u ]_vars

\* Every waiting entry of every course was stamped inside the session window.
EntriesStampedInWindow ==
  \A c \in CourseIds :
    \A i \in 1 .. Len(courses[c].waitingForApproveList) :
      InWindow(courses[c], courses[c].waitingForApproveList[i].timestamp)

\* C20 (as claimed): a validateCode call made while now + 7 h is outside the
\* session window of the course found fails with WindowExpired and appends
\* nothing, and every waiting entry was stamped inside the window.
C20_OutsideWindowExpired ==
  [][ /\ EntriesStampedInWindow'
      /\ Validated' /\ ~InWindow(courses[last'.courseId], clock)
           => /\ last'.code = "Error-02-0004"
              /\ courses' = courses ]_vars

\* C20 (amended): such a call fails and appends nothing, with WindowExpired
\* for a user registered for the course and with NotRegistered for any other
\* user; every waiting entry was stamped inside the window.
C20_OutsideWindowRefused ==
  [][ /\ EntriesStampedInWindow'
      /\ Validated' /\ ~InWindow(courses[last'.courseId], clock)
           => /\ last'.code =
                   IF HasUser(courses[last'.courseId].registeredUsers, last'.userId)
                     THEN "Error-02-0004" ELSE "Error-02-0007"
              /\ courses' = courses ]_vars

\* C20 witness: after the session a registered user who is not pending
\* entered the code and was refused as WindowExpired, while the waiting list
\* holds the entry another user got during the session.
C20_Witness ==
  /\ Validated
  /\ last.code = "Error-02-0004"
  /\ clock + 7 > courses[last.courseId].courseDate + courses[last.courseId].hours
  /\ courses[last.courseId].waitingForApproveList # << >>
  /\ ~HasUser(courses[last.courseId].waitingForApproveList, last.userId)

\* The last step answered a /action call.
Decided == last.op \in ActionNames

\* C21: a decide call whose action is neither approve nor reject fails with
\* InvalidAction; one with a valid action that names a user or a course not
\* in the collections fails with UserOrCourseNotFound; in both cases no user
\* and no course changes.
C21_RefusedDecisionChangesNothing ==
  [][ Decided' =>
        /\ last'.op \notin {"approve", "reject"}
             => last'.code = "Error-02-0001"
        /\ last'.op \in {"approve", "reject"}
             /\ last'.userId # "" /\ last'.courseId # ""
             /\ (last'.userId \notin UserIds \/ last'.courseId \notin CourseIds)
             => last'.code = "Error-03-0010"
        /\ last'.code \in {"Error-02-0001", "Error-03-0010"}
             => users' = users /\ courses' = courses ]_vars

\* C21 witness: a reject naming an unknown user and a course whose waiting
\* list holds an entry was refused as UserOrCourseNotFound.
C21_Witness ==
  /\ last.op = "reject"
  /\ last.userId = NoUser
  /\ last.courseId = SessionCourse
  /\ last.code = "Error-03-0010"
  /\ courses[SessionCourse].waitingForApproveList # << >>

\* C22: an approve of a user whose statusStartDate is set and whose
\* statusEndDate is at or before now sets statusEndDate to the earlier of
\* now + 1 year and statusStartDate + 2 years.
C22_ExpiredReset ==
  [][ /\ Approved'
      /\ users[last'.userId].statusStartDate # << >>
      /\ users[last'.userId].statusEndDate # << >>
      /\ users[last'.userId].statusEndDate[1] <= clock
      => LET oneYearOn == AddYears(clock, serverTz, 1)
             ceiling   == AddYears(users[last'.userId].statusStartDate[1],
                                   serverTz, 2)
         IN  users'[last'.userId].statusEndDate
               = <<IF oneYearOn < ceiling THEN oneYearOn ELSE ceiling>> ]_vars

\* C22 witness: a status that had run out before 1 March 2025 has been reset
\* on that day to one year later, below its ceiling.
C22_Witness ==
  /\ Approved
  /\ clock = StatusTimes[2]
  /\ users[last.userId].statusStartDate = <<Utc(2025, 8, 15, 0)>>
  /\ users[last.userId].statusEndDate = <<AddYears(clock, serverTz, 1)>>

\* C23 (as claimed): an approve of a user whose statusEndDate is later than
\* now and less than one year before statusStartDate + 2 years leaves
\* statusEndDate equal to statusStartDate + 2 years.
C23_RemainderReachesCeiling ==
  [][ /\ Approved'
      /\ users[last'.userId].statusStartDate # << >>
      /\ users[last'.userId].statusEndDate # << >>
      /\ users[last'.userId].statusEndDate[1] > clock
      /\ users[last'.userId].statusEndDate[1]
           <= AddYears(users[last'.userId].statusStartDate[1], serverTz, 2)
      /\ AddYears(users[last'.userId].statusStartDate[1], serverTz, 2)
           - users[last'.userId].statusEndDate[1] < oneYearInMs
      => users'[last'.userId].statusEndDate
           = <<AddYears(users[last'.userId].statusStartDate[1], serverTz, 2)>> ]_vars

\* C24 (as claimed): under every interleaving of generateCode requests, a
\* request stores a new code only while the stored course holds no code of
\* the session window, so a stored code is never replaced.
C24_OneCodePerWindow ==
  [][ Generated' /\ last'.code = "Success-01-0002"
        => ~HoldsCodeOfPeriod(courses[last'.courseId]) ]_vars

\* C25: over any sequence of calls at any times, a stored code carries a
\* timestamp inside the session window, no operation changes or clears it,
\* and every generateCode call on a course that holds a code fails with
\* OutOfWindow, WindowExpired or CodeAlreadyActive: generateCode succeeds at
\* most once per course.
C25_GeneratedAtMostOnce ==
  [][ /\ \A c \in CourseIds :
           /\ courses'[c].generatedCode # << >> => HoldsCodeOfPeriod(courses'[c])
           /\ courses[c].generatedCode # << >> =>
                /\ courses'[c].generatedCode = courses[c].generatedCode
                /\ courses'[c].generatedCodeTimestamp
                     = courses[c].generatedCodeTimestamp
      /\ Generated' /\ courses[last'.courseId].generatedCode # << >>
           => last'.code \in {"Error-01-0004", "Error-01-0005", "Error-01-0006"} ]_vars

\* C25 witness: after the session a further call on a course that holds the
\* code of the session was refused as WindowExpired.
C25_Witness ==
  /\ Generated
  /\ last.code = "Error-01-0005"
  /\ courses[last.courseId].generatedCode # << >>
  /\ clock = SessionTimes[4]

\* C26: when the status fields are written by approvals only, after the
\* first approve and after every later one statusEndDate equals
\* statusStartDate + 2 years, and statusStartDate keeps the value the first
\* approve gave it.
C26_EndStaysAtCeiling ==
  [][ \A u \in UserIds :
        /\ users'[u].statusStartDate # << >> =>
             users'[u].statusEndDate
               = <<AddYears(users'[u].statusStartDate[1], serverTz, 2)>>
        /\ users[u].statusStartDate # << >> =>
             users'[u].statusStartDate = users[u].statusStartDate ]_vars

\* C26 witness: a user first approved on 29 February 2024 has been approved
\* again after the two years had run out.
C26_Witness ==
  /\ Approved
  /\ clock = ApproveTimes[6]
  /\ users[last.userId].statusStartDate = <<ApproveTimes[1]>>
  /\ users[last.userId].statusEndDate[1] < clock

\* C27 (as claimed): under every interleaving of validateCode requests, no
\* waiting list holds two entries of the same userId.
C27_ConcurrentPendingOnce ==
  \A c \in CourseIds :
    Cardinality(UserIdsOf(courses[c].waitingForApproveList))
      = Len(courses[c].waitingForApproveList)

\* C28 (as claimed): a validateCode call by a user who is registered for a
\* course, not in its waiting list, inside its session window and entering
\* its code puts the user on that course's waiting list, whatever other
\* course holds the same code; and no waiting list ever holds a user who is
\* not registered for the course.
C28_OwnCourseEntered ==
  [][ /\ \A u \in UserIds, code \in CodeChoices, x \in CourseIds :
           /\ ValidateCode(u, code)
           /\ courses[x].generatedCode = <<code>>
           /\ HasUser(courses[x].registeredUsers, u)
           /\ ~HasUser(courses[x].waitingForApproveList, u)
           /\ InWindow(courses[x], clock)
           => HasUser(courses'[x].waitingForApproveList, u)
      /\ \A x \in CourseIds :
           UserIdsOf(courses'[x].waitingForApproveList)
             \subseteq UserIdsOf(courses'[x].registeredUsers) ]_vars

\* C29 (as claimed): after any sequence of register calls through either
\* handler, a user has a trainingInfo entry of a course exactly when the
\* course's registeredUsers has an entry of the user.
C29_RegisteredBothWays ==
  \A u \in UserIds, c \in CourseIds :
    HasCourse(users[u].trainingInfo, c)
      <=> HasUser(courses[c].registeredUsers, u)

\* C30 (as claimed): in every reachable state every userId of a course's
\* waitingForApproveList is in its registeredUsers, and registeredUsers
\* holds at most one entry per userId.
C30_WaitingAreRegisteredOnce ==
  \A c \in CourseIds :
    /\ UserIdsOf(courses[c].waitingForApproveList)
         \subseteq UserIdsOf(courses[c].registeredUsers)
    /\ Cardinality(UserIdsOf(courses[c].registeredUsers))
         = Len(courses[c].registeredUsers)

====
